---- MODULE Spec2Model ----
(***************************************************************************)
(* Model of auto_post.py: the duplicate-avoidance index (normalize,        *)
(* char_ngrams, jaccard, simhash, hamming, most_similar_info), its         *)
(* persistence (dedup_index.json, tweets_preview.md) and the               *)
(* generate -> check -> retry -> fallback -> post control flow of main().  *)
(*                                                                         *)
(* A text is a sequence of characters; a character is a one-element TLA+   *)
(* string.  Japanese characters of the substitution table are written as   *)
(* romanised atoms ("ji" for U+5B9F, ...): they are neither ASCII letters, *)
(* punctuation nor whitespace, which is all the code distinguishes.        *)
(***************************************************************************)
EXTENDS Integers, Sequences, FiniteSets, TLC

(* ---------------------------- bounds ----------------------------------- *)
\* number of consecutive process invocations (runs of main) explored
MaxRuns == 2
\* number of distinct per-process string-hash seeds (PYTHONHASHSEED values)
NumSeeds == 2
\* largest max_retries a caller passes to _handle_rate_limit
MaxRetries == 4
\* largest max_attempts a caller passes to generate_tweet_with_context
MaxAttemptsArg == 3

(* ------------------------ program constants ---------------------------- *)
MAX_ATTEMPTS == 5
HAMMING_TH == 3
\* JACCARD_TH = 0.80 kept as the exact ratio JACCARD_TH_NUM / JACCARD_TH_DEN
JACCARD_TH_NUM == 80
JACCARD_TH_DEN == 100
\* sanitize_and_limit(text, limit=140)
LIMIT == 140
\* extract_block_terms(..., top_k=8)
TOP_K == 8
\* block_terms[:12] in add_blocklist_to_prompt
PROMPT_TERMS == 12
\* width of the simhash fingerprint
HASH_BITS == 64

(* --------------------------- characters -------------------------------- *)
Whitespace == {" ", "\n"}
\* members of string.punctuation (and the extra quotes/brackets) in use
Punctuation == {"!", "%", "#", "(", ")", ":"}
ToLower(c) == CASE c = "A" -> "a" [] c = "B" -> "b" [] OTHER -> c

\* all characters of the model, in a fixed order (used by the hash model)
AlphaSeq ==
  << " ", "\n", "!", "%", "#", "(", ")", ":", "a", "b", "c", "d", "x", "A", "B",
     "m", "p", "u",
     "ji", "ha", "i", "gai", "ni", "mo",
     "shi", "tsu", "te", "ma", "si", "ta", "go", "zon", "de",
     "shin", "zi", "ra", "re", "na", "yi", "odoro", "ku", "be", "ki",
     "chou", "sa", "yo", "ru", "to", "ken", "kyuu", "ketsu", "ka",
     "dee", "long", "taa", "ga", "shime", "su", "tou", "kei", "kara", "mi", "e", "no",
     "maru", "yaku", "wari" >>
Code(c) == CHOOSE k \in 1..Len(AlphaSeq) : AlphaSeq[k] = c

(* ------------------------- sequence helpers ---------------------------- *)
Min(a, b) == IF a < b THEN a ELSE b
Drop(s, n) == SubSeq(s, n + 1, Len(s))
\* all orderings of a finite set
Orderings(S) == {s \in [1..Cardinality(S) -> S] : \A a, b \in 1..Cardinality(S) : s[a] = s[b] => a = b}

RECURSIVE LStrip(_)
LStrip(s) == IF s # <<>> /\ s[1] \in Whitespace THEN LStrip(Tail(s)) ELSE s
RECURSIVE RStrip(_)
RStrip(s) == IF s # <<>> /\ s[Len(s)] \in Whitespace THEN RStrip(SubSeq(s, 1, Len(s) - 1)) ELSE s
\* str.strip()
Strip(s) == RStrip(LStrip(s))

\* re.sub(r"\s+", " ", s): every maximal run of whitespace becomes one space
RECURSIVE CollapseWs(_)
CollapseWs(s) ==
  LET ws == {k \in 1..Len(s) : s[k] \in Whitespace}
  IN IF ws = {} THEN s
     ELSE LET k == CHOOSE m \in ws : \A o \in ws : m <= o
          IN SubSeq(s, 1, k - 1) \o <<" ">> \o CollapseWs(LStrip(Drop(s, k - 1)))

\* " ".join(text.split()): strip, then collapse inner whitespace runs
JoinSplit(s) == CollapseWs(Strip(s))

(* --------------------------- sanitize_and_limit ------------------------ *)
\* mutant: the text is put on one line but not cut to the limit
sanitize_and_limit_uncut(text) == IF text = <<>> THEN <<>> ELSE JoinSplit(text)
sanitize_and_limit(text) ==
  IF text = <<>> THEN <<>>
  ELSE LET one_line == JoinSplit(text)
       IN IF Len(one_line) > LIMIT THEN SubSeq(one_line, 1, LIMIT) ELSE one_line

(* ------------------------------ normalize ------------------------------ *)
\* text.translate(_PUNCT_TABLE)
Translate(s) == [k \in 1..Len(s) |-> IF s[k] \in Punctuation THEN " " ELSE s[k]]
Lowercase(s) == [k \in 1..Len(s) |-> ToLower(s[k])]
normalize(text) ==
  IF text = <<>> THEN <<>>
  ELSE CollapseWs(Translate(Lowercase(Strip(text))))

(* ----------------------------- char_ngrams ----------------------------- *)
\* s.replace(" ", "")
RemoveSpaces(s) == SelectSeq(s, LAMBDA c : c # " ")
char_ngrams(str, n) ==
  LET s == RemoveSpaces(str)
  IN IF Len(s) < n
     THEN (IF s # <<>> THEN {s} ELSE {})
     ELSE {SubSeq(s, k, k + n - 1) : k \in 1..(Len(s) - n + 1)}

(* -------------------------------- jaccard ------------------------------ *)
\* the float result inter / len(a | b) is kept as the exact ratio <<n, d>>
jaccard(a, b) ==
  IF a = {} \/ b = {} THEN <<0, 1>>
  ELSE LET inter == Cardinality(a \cap b)
       IN IF inter = 0 THEN <<0, 1>> ELSE <<inter, Cardinality(a \cup b)>>
JacLess(p, q) == p[1] * q[2] < q[1] * p[2]
JacEq(p, q) == p[1] * q[2] = q[1] * p[2]
JACCARD_TH == <<JACCARD_TH_NUM, JACCARD_TH_DEN>>

(* ----------------------------- simhash, hamming ------------------------ *)
\* hash(tok) & ((1 << 64) - 1): Python's str hash is keyed by a per-process
\* random seed.  The 64-bit value is kept as its set of 1-bits.
TokCode(tok) == IF Len(tok) = 1 THEN Code(tok[1]) ELSE Code(tok[1]) * 71 + Code(tok[2])
\* bit b of the hash of the token with code c under seed sd
HashBit(c, sd, b) == ((((c * 7 + sd * 13 + 5) * (b + 11)) % 17) + (c + sd) * b) % 2 = 1
StrHash(tok, sd) == LET c == TokCode(tok) IN {b \in 0..(HASH_BITS - 1) : HashBit(c, sd, b)}
\* tokens is a set, so every Counter weight is 1: v[b] = (#tokens with bit b) - (#tokens without)
simhash(tokens, sd) ==
  LET codes == {TokCode(t) : t \in tokens}
  IN {b \in 0..(HASH_BITS - 1) : 2 * Cardinality({c \in codes : HashBit(c, sd, b)}) - Cardinality(codes) >= 0}
\* (a ^ b).bit_count()
hamming(a, b) == Cardinality((a \ b) \cup (b \ a))

(* -------------------------- index records ------------------------------- *)
\* one element of the index list: {"norm": ..., "simhash": ...}
Rec(norm, sd) == [norm |-> norm, simhash |-> simhash(char_ngrams(norm, 2), sd)]

(* --------------------------- most_similar_info ------------------------- *)
\* best is (jac, ham, item); Python's None is the empty sequence and a found
\* item is the one-element sequence holding it
\* mutant: the scan starts from distance 0 instead of 64
InitialBest_zeroDistance == [jac |-> <<0, 1>>, ham |-> 0, nearest |-> <<>>]
InitialBest == [jac |-> <<0, 1>>, ham |-> HASH_BITS, nearest |-> <<>>]
\* mutant: a record that ties with the current best replaces it
Better_nonstrict(jac, ham, best) == JacLess(best.jac, jac) \/ (JacEq(jac, best.jac) /\ ham <= best.ham)
\* mutant: the Hamming distance does not break ties
Better_jaccardOnly(jac, ham, best) == JacLess(best.jac, jac)
Better(jac, ham, best) == JacLess(best.jac, jac) \/ (JacEq(jac, best.jac) /\ ham < best.ham)
RECURSIVE ScanIndex(_, _, _, _, _)
ScanIndex(grams, sh, index, k, best) ==
  IF k > Len(index) THEN best
  ELSE LET item == index[k]
           jac == jaccard(grams, char_ngrams(item.norm, 2))
           ham == hamming(sh, item.simhash)
       IN ScanIndex(grams, sh, index, k + 1,
                    IF Better(jac, ham, best)
                    THEN [jac |-> jac, ham |-> ham, nearest |-> <<item>>]
                    ELSE best)
\* mutant: only the last record of the index is scored
most_similar_info_lastOnly(candidate, index, sd) ==
  LET norm == normalize(candidate)
      grams == char_ngrams(norm, 2)
      sh == simhash(grams, sd)
  IN ScanIndex(grams, sh, index, IF index = <<>> THEN 1 ELSE Len(index), InitialBest)
most_similar_info(candidate, index, sd) ==
  LET norm == normalize(candidate)
      grams == char_ngrams(norm, 2)
      sh == simhash(grams, sd)
  IN ScanIndex(grams, sh, index, 1, InitialBest)

\* mutant: the two tests joined by "or"
Accepts_either(best) == JacLess(best.jac, JACCARD_TH) \/ best.ham > HAMMING_TH
\* mutant: only the fingerprint distance is tested
Accepts_hammingOnly(best) == best.ham > HAMMING_TH
\* the threshold rule of the generation loop: jac < JACCARD_TH and ham > HAMMING_TH
Accepts(best) == JacLess(best.jac, JACCARD_TH) /\ best.ham > HAMMING_TH

(* -------------------- extract_block_terms / prompt --------------------- *)
\* Every shingle of the (at most one) neighbour counts once, so most_common
\* returns the first TOP_K of them in the iteration order of the shingle set,
\* an order fixed by the str hashes of the process: SetOrder(a, b, sd) says
\* that a is iterated before b under hash seed sd.  The result is kept as the
\* set of the terms returned.
HashSlot(tok, sd) == (TokCode(tok) * (2 * sd + 3) + 29 * sd) % 61
SetOrder(a, b, sd) ==
  \/ HashSlot(a, sd) < HashSlot(b, sd)
  \/ HashSlot(a, sd) = HashSlot(b, sd) /\ TokCode(a) < TokCode(b)
\* mutant: every shingle is returned, top_k is ignored
extract_block_terms_all(sims, sd) == UNION {char_ngrams(sims[k], 2) : k \in 1..Len(sims)}
extract_block_terms(sims, sd) ==
  LET grams == UNION {char_ngrams(sims[k], 2) : k \in 1..Len(sims)}
  IN {g \in grams : Cardinality({h \in grams : SetOrder(h, g, sd)}) < TOP_K}
\* the prompt is kept as the set of terms listed after the base prompt
BasePrompt == {}
add_blocklist_to_prompt(prompt, block_terms) ==
  IF block_terms = {} THEN prompt
  ELSE prompt \cup (IF Cardinality(block_terms) <= PROMPT_TERMS THEN block_terms
                    ELSE CHOOSE S \in SUBSET block_terms : Cardinality(S) = PROMPT_TERMS)

(* ------------------- tweets_preview.md: write and parse ---------------- *)
\* "# Tweet Preview (<timestamp>)": "m" stands for the rest of the header
MarkerLine == <<"#", " ", "m">>
\* "Posted: <url>"
PostedLine == <<"p", ":", " ", "u">>
\* the lines one call of append_markdown_preview adds to the file
EntryLines(e) ==
  << <<>>, <<>>, MarkerLine, <<>>,
     [k \in 1..Len(e.text) |-> IF e.text[k] = "\n" THEN " " ELSE e.text[k]],
     <<>> >> \o (IF e.url THEN <<PostedLine>> ELSE <<>>)
RECURSIVE MdLines(_)
MdLines(log) == IF log = <<>> THEN <<>> ELSE EntryLines(Head(log)) \o MdLines(Tail(log))

IsMarker(line) == Len(line) >= Len(MarkerLine) /\ SubSeq(line, 1, Len(MarkerLine)) = MarkerLine
RECURSIVE SkipBlank(_, _)
SkipBlank(lines, j) == IF j <= Len(lines) /\ Strip(lines[j]) = <<>> THEN SkipBlank(lines, j + 1) ELSE j
RECURSIVE ExtractLoop(_, _, _)
ExtractLoop(lines, i, texts) ==
  IF i > Len(lines) THEN texts
  ELSE IF IsMarker(lines[i])
       THEN LET j == SkipBlank(lines, i + 1)
            IN ExtractLoop(lines, j, IF j <= Len(lines) THEN Append(texts, Strip(lines[j])) ELSE texts)
       ELSE ExtractLoop(lines, i + 1, texts)
\* log is the list of entries written so far; the file exists iff it is non-empty
extract_past_texts_from_md(log) == ExtractLoop(MdLines(log), 1, <<>>)

build_index_from_md(log, sd) ==
  LET texts == extract_past_texts_from_md(log)
  IN [k \in 1..Len(texts) |-> Rec(normalize(texts[k]), sd)]

(* ------------------- dedup_index.json: load and persist ---------------- *)
\* the file is missing, holds a complete JSON list, or holds a truncated one
NoFile == [st |-> "missing", recs |-> <<>>]
load_existing_index(file) == IF file.st = "ok" THEN file.recs ELSE <<>>
\* write_text either completes, fails before the file is opened, or fails
\* after the file was truncated
PersistOutcomes == {"ok", "fail_open", "fail_write"}
\* mutant: the file is opened for appending, the list is written after the old content
persist_index_appendMode(index, file, outcome) ==
  CASE outcome = "ok" -> [st |-> "ok", recs |-> file.recs \o index]
    [] outcome = "fail_open" -> file
    [] outcome = "fail_write" -> [st |-> "corrupt", recs |-> <<>>]
persist_index(index, file, outcome) ==
  CASE outcome = "ok" -> [st |-> "ok", recs |-> index]
    [] outcome = "fail_open" -> file
    [] outcome = "fail_write" -> [st |-> "corrupt", recs |-> <<>>]

(* --------------------------- fallback mutation ------------------------- *)
variation_patterns ==
  << << <<"ji", "ha">>, <<"i", "gai", "ni", "mo">> >>,
     << <<"shi", "tsu", "te", "ma", "si", "ta">>, <<"go", "zon", "shi", "de", "si", "ta">> >>,
     << <<"shin", "zi", "ra", "re", "na", "yi">>, <<"odoro", "ku", "be", "ki">> >>,
     << <<"chou", "sa", "ni", "yo", "ru", "to">>, <<"ken", "kyuu", "ketsu", "ka", "ni", "yo", "ru", "to">> >>,
     << <<"dee", "long", "taa", "ga", "shime", "su">>, <<"tou", "kei", "kara", "mi", "e", "ru", "no", "ha">> >>,
     << <<"maru", "maru", "%">>, <<"yaku", "maru", "wari">> >> >>
\* re.sub(old, new, s) for a literal pattern: leftmost non-overlapping matches
RECURSIVE ReSub(_, _, _)
ReSub(old, new, s) ==
  LET at == {k \in 1..(Len(s) - Len(old) + 1) : SubSeq(s, k, k + Len(old) - 1) = old}
  IN IF at = {} THEN s
     ELSE LET k == CHOOSE m \in at : \A o \in at : m <= o
          IN SubSeq(s, 1, k - 1) \o new \o ReSub(old, new, Drop(s, k + Len(old) - 1))
Occurs(old, s) == \E k \in 1..(Len(s) - Len(old) + 1) : SubSeq(s, k, k + Len(old) - 1) = old
\* random.sample(variation_patterns, 2): an ordered pair of distinct entries
Samples == {p \in (1..Len(variation_patterns)) \X (1..Len(variation_patterns)) : p[1] # p[2]}
Mutate(text, sample) ==
  LET first == ReSub(variation_patterns[sample[1]][1], variation_patterns[sample[1]][2], text)
  IN ReSub(variation_patterns[sample[2]][1], variation_patterns[sample[2]][2], first)

(* ------------------------ generator outputs ---------------------------- *)
\* texts the external generator may return (raw, before sanitize_and_limit)
T_plain == <<"a", "b", " ", "c", "d", "a", "b">>
\* T_plain in other case, with a newline and trailing punctuation
T_variant == <<"A", "B", "\n", "c", "d", "a", "b", "!", "!">>
\* shares 4 of its 5 shingles with T_plain: Jaccard exactly 0.80
T_near == <<"a", "b", "c", "d", "a", "x">>
T_empty == <<>>
\* one character more than LIMIT; begins with the first substitution pattern
\* and has more than TOP_K distinct shingles
T_long ==
  [k \in 1..(LIMIT + 1) |->
     IF k <= 8 THEN <<"ji", "ha", "a", "b", "c", "d", "x", "m">>[k] ELSE "x"]
Candidates == {T_plain, T_variant, T_near, T_empty, T_long}
Seeds == 0..(NumSeeds - 1)

(* ------------------------------- state --------------------------------- *)
VARIABLES
  indexFile,    \* dedup_index.json
  mdLog,        \* tweets_preview.md, as the list of entries appended to it
  pc,           \* position of the current run of main()
  rc,           \* exit code of the last finished run (-1 while running)
  runs,         \* number of runs started
  seed,         \* string-hash seed of the current process
  index,        \* main: index
  attempt,      \* number of generator calls made in this run
  prompt,       \* prompt of the last generator call
  last_text,    \* main: last_text
  best,         \* main: (jac, ham, nearest) of the last attempt
  block_terms,  \* main: block_terms
  chosen_text,  \* main: chosen_text
  acceptedAt,   \* attempt whose candidate the threshold rule accepted (0: none)
  allDup,       \* every candidate of this run so far had Jaccard >= JACCARD_TH
  allKnown,     \* every candidate of this run so far had its normalized form in the index
  fallbacks,    \* number of times the fallback branch was entered in this run
  postCalls,    \* number of create_tweet calls in this run
  genFailedAt,  \* attempt at which a generator call raised (0: none)
  startIndex,   \* index as it was after the startup step of this run
  startFile,    \* dedup_index.json as it was after the startup step of this run
  startLog,     \* tweets_preview.md as it was after the startup step of this run
  loaded,       \* what load_existing_index returned in this run
  posted,       \* normalized forms of all texts create_tweet accepted
  failed,       \* normalized forms of all texts create_tweet refused
  persists,     \* outcomes of the persist_index calls of this run, in call order
  tweeted       \* create_tweet returned successfully in this run

diskVars == <<indexFile, mdLog>>
loopVars == <<attempt, prompt, last_text, best, block_terms, chosen_text, acceptedAt, allDup, allKnown>>
startVars == <<startIndex, startFile, startLog, loaded, seed>>
vars == <<indexFile, mdLog, pc, rc, runs, seed, index, attempt, prompt, last_text, best,
          block_terms, chosen_text, acceptedAt, allDup, allKnown, fallbacks, postCalls,
          genFailedAt, startIndex, startFile, startLog, loaded, posted, failed, persists, tweeted>>

(* ----- state of the other components (modules/feedback_collector.py) ---- *)
VARIABLES
  rl_pc,        \* _handle_rate_limit: "idle", "loop", "returned" or "raised"
  max_retries,  \* _handle_rate_limit: max_retries
  rl_attempt,   \* _handle_rate_limit: attempt
  rl_calls,     \* number of calls of func so far
  rl_sleeps,    \* arguments of the time.sleep calls so far
  rl_result,    \* the value returned ("None" for Python's None)
  rl_raised     \* the exception that left the function ("none": none)

rlVars == <<rl_pc, max_retries, rl_attempt, rl_calls, rl_sleeps, rl_result, rl_raised>>

(* ----- state of modules/enhanced_generator.py (EnhancedTweetGenerator) --- *)
VARIABLES
  etg_pc,        \* "idle", "generating", "generated", "posted" or "raised"
  max_attempts,  \* generate_tweet_with_context: max_attempts
  etg_attempt,   \* generate_tweet_with_context: attempt (0 before the loop)
  etg_outputs,   \* what each chat.completions.create call did: <<"raise">> or <<"content", text>>
  tweet,         \* the tweet generate_tweet_with_context returned
  dry_run,       \* post_and_record: dry_run
  poster_calls,  \* number of create_tweet calls
  result,        \* post_and_record: the result dictionary
  analyzer_db,   \* contents recorded by analyzer.add_tweet
  etg_raised     \* the exception that left the called method ("none": none)

etgVars == <<etg_pc, max_attempts, etg_attempt, etg_outputs, tweet, dry_run, poster_calls, result, analyzer_db, etg_raised>>
auxVars == <<rlVars, etgVars>>

\* result as post_and_record builds it first; Python's None is "None"
NewResult(dr) == [success |-> FALSE, tweet_id |-> "None", error |-> "None", dry_run |-> dr]

GeneratorInit ==
  /\ etg_pc = "idle"
  /\ max_attempts = 0
  /\ etg_attempt = 0
  /\ etg_outputs = <<>>
  /\ tweet = <<>>
  /\ dry_run = FALSE
  /\ poster_calls = 0
  /\ result = NewResult(FALSE)
  /\ analyzer_db = <<>>
  /\ etg_raised = "none"

RateLimitInit ==
  /\ rl_pc = "idle"
  /\ max_retries = 0
  /\ rl_attempt = 0
  /\ rl_calls = 0
  /\ rl_sleeps = <<>>
  /\ rl_result = "None"
  /\ rl_raised = "none"

\* The installation a first run finds: nothing on disk, or the files an
\* earlier run left after it posted T_plain and persisted the index.
EarlierPost == sanitize_and_limit(T_plain)
Installations ==
  { [file |-> NoFile, log |-> <<>>, posted |-> {}],
    [file |-> [st |-> "ok", recs |-> <<Rec(normalize(EarlierPost), 0)>>],
     log |-> <<[text |-> EarlierPost, url |-> FALSE], [text |-> EarlierPost, url |-> TRUE]>>,
     posted |-> {normalize(EarlierPost)}] }

Init ==
  /\ \E inst \in Installations :
       /\ indexFile = inst.file
       /\ mdLog = inst.log
       /\ posted = inst.posted
       /\ failed = {}
       /\ startFile = inst.file
       /\ startLog = inst.log
  /\ pc = "idle"
  /\ rc = -1
  /\ runs = 0
  /\ seed = 0
  /\ index = <<>>
  /\ attempt = 0
  /\ prompt = BasePrompt
  /\ last_text = <<>>
  /\ best = InitialBest
  /\ block_terms = {}
  /\ chosen_text = <<>>
  /\ acceptedAt = 0
  /\ allDup = TRUE
  /\ allKnown = TRUE
  /\ fallbacks = 0
  /\ postCalls = 0
  /\ genFailedAt = 0
  /\ startIndex = <<>>
  /\ loaded = <<>>
  /\ persists = <<>>
  /\ tweeted = FALSE
  /\ RateLimitInit
  /\ GeneratorInit

\* a new process: the locals of main() before the generation step
FreshLocals ==
  /\ attempt' = 0
  /\ prompt' = BasePrompt
  /\ last_text' = <<>>
  /\ best' = InitialBest
  /\ block_terms' = {}
  /\ chosen_text' = <<>>
  /\ acceptedAt' = 0
  /\ allDup' = TRUE
  /\ allKnown' = TRUE
  /\ fallbacks' = 0
  /\ postCalls' = 0
  /\ genFailedAt' = 0
  /\ tweeted' = FALSE

CanStart == pc \in {"idle", "done"} /\ runs < MaxRuns

(* main, lines 471-489: a missing X credential ends the run with 2 *)
MissingCredentials ==
  /\ CanStart
  /\ runs' = runs + 1
  /\ FreshLocals
  /\ index' = <<>>
  /\ loaded' = <<>>
  /\ startIndex' = <<>>
  /\ startFile' = indexFile
  /\ startLog' = mdLog
  /\ pc' = "done"
  /\ rc' = 2
  /\ persists' = <<>>
  /\ UNCHANGED <<indexFile, mdLog, seed, posted, failed, auxVars>>

\* mutant: the known texts are not subtracted
NewNorms_all(idx, log) ==
  LET texts == extract_past_texts_from_md(log)
  IN {normalize(texts[k]) : k \in 1..Len(texts)}
\* the records the reconcile branch appends, in the order given
NewNorms(idx, log) ==
  LET texts == extract_past_texts_from_md(log)
      md_texts == {normalize(texts[k]) : k \in 1..Len(texts)}
      known == {idx[k].norm : k \in 1..Len(idx)}
  IN md_texts \ known
Reconcile(idx, order, sd) == idx \o [k \in 1..Len(order) |-> Rec(order[k], sd)]

\* an exception of persist_index in the startup step is not caught: the
\* process ends with a traceback (exit status 1)
AfterStartupPersist(outcome) ==
  IF outcome = "ok" THEN pc' = "generate" /\ rc' = -1 ELSE pc' = "done" /\ rc' = 1

(* main, lines 491-496: no usable index, rebuild it from the preview log *)
StartupRebuild(sd, outcome) ==
  /\ CanStart
  /\ load_existing_index(indexFile) = <<>>
  /\ runs' = runs + 1
  /\ FreshLocals
  /\ seed' = sd
  /\ loaded' = <<>>
  /\ index' = build_index_from_md(mdLog, sd)
  /\ indexFile' = persist_index(index', indexFile, outcome)
  /\ persists' = <<outcome>>
  /\ startIndex' = index'
  /\ startFile' = indexFile'
  /\ startLog' = mdLog
  /\ AfterStartupPersist(outcome)
  /\ UNCHANGED <<mdLog, posted, failed, auxVars>>

(* main, lines 497-506: a loaded index is reconciled with the preview log *)
StartupReconcileIn(sd, outcome, order) ==
  /\ CanStart
  /\ load_existing_index(indexFile) # <<>>
  /\ order = <<>> => outcome = "ok"
  /\ runs' = runs + 1
  /\ FreshLocals
  /\ seed' = sd
  /\ loaded' = load_existing_index(indexFile)
  /\ index' = Reconcile(loaded', order, sd)
  /\ indexFile' = IF order # <<>> THEN persist_index(index', indexFile, outcome) ELSE indexFile
  /\ persists' = IF order # <<>> THEN <<outcome>> ELSE <<>>
  /\ startIndex' = index'
  /\ startFile' = indexFile'
  /\ startLog' = mdLog
  /\ AfterStartupPersist(outcome)
  /\ UNCHANGED <<mdLog, posted, failed, auxVars>>

\* list(md_texts - known) enumerates the new texts in the arbitrary order of a set
StartupReconcile(sd, outcome) ==
  \E order \in Orderings(NewNorms(load_existing_index(indexFile), mdLog)) : StartupReconcileIn(sd, outcome, order)

(* main, lines 509-510: choose_provider raises, the generation step fails *)
ProviderUnavailable ==
  /\ pc = "generate"
  /\ attempt = 0
  /\ pc' = "done"
  /\ rc' = 3
  /\ UNCHANGED <<diskVars, runs, index, loopVars, fallbacks, postCalls, genFailedAt, startVars, posted, failed, persists, tweeted, auxVars>>

\* mutant: one iteration too many
LoopContinues_offByOne(n) == n <= MAX_ATTEMPTS
\* for attempt in range(1, MAX_ATTEMPTS + 1): another iteration follows
LoopContinues(n) == n < MAX_ATTEMPTS
\* if not chosen_text:
NeedsFallback(text) == text = <<>>
\* mutant: running out of attempts is raised as an error of the generation step
AfterLoop_raise(text) == IF text = <<>> THEN [pc |-> "done", rc |-> 3] ELSE [pc |-> "preview", rc |-> -1]
\* where main continues once the loop is left, and the exit code so far
AfterLoop(text) == [pc |-> IF NeedsFallback(text) THEN "fallback" ELSE "preview", rc |-> -1]

(* main, lines 522-554: one iteration of the generation loop *)
Attempt(raw) ==
  /\ pc = "generate"
  /\ LoopContinues(attempt)
  /\ attempt' = attempt + 1
  /\ prompt' = (IF block_terms # {} THEN add_blocklist_to_prompt(BasePrompt, block_terms) ELSE BasePrompt)
  /\ last_text' = sanitize_and_limit(raw)
  /\ best' = most_similar_info(last_text', index, seed)
  /\ allDup' = (allDup /\ ~JacLess(best'.jac, JACCARD_TH))
  /\ allKnown' = (allKnown /\ \E k \in 1..Len(index) : index[k].norm = normalize(last_text'))
  /\ IF Accepts(best')
     THEN /\ chosen_text' = last_text'
          /\ acceptedAt' = attempt'
          /\ block_terms' = block_terms
          /\ pc' = AfterLoop(chosen_text').pc
          /\ rc' = AfterLoop(chosen_text').rc
     ELSE /\ block_terms' = extract_block_terms(IF best'.nearest # <<>> THEN <<best'.nearest[1].norm>> ELSE <<>>, seed)
          /\ UNCHANGED <<chosen_text, acceptedAt>>
          /\ pc' = IF LoopContinues(attempt') THEN "generate" ELSE AfterLoop(chosen_text).pc
          /\ rc' = IF LoopContinues(attempt') THEN rc ELSE AfterLoop(chosen_text).rc
  /\ UNCHANGED <<diskVars, runs, index, fallbacks, postCalls, genFailedAt, startVars, posted, failed, persists, tweeted, auxVars>>

\* mutant: the exception is swallowed and the loop goes on to the next attempt
GeneratorRaises_retry ==
  /\ pc = "generate"
  /\ LoopContinues(attempt)
  /\ attempt' = attempt + 1
  /\ prompt' = (IF block_terms # {} THEN add_blocklist_to_prompt(BasePrompt, block_terms) ELSE BasePrompt)
  /\ genFailedAt' = attempt'
  /\ pc' = IF LoopContinues(attempt') THEN "generate" ELSE "fallback"
  /\ UNCHANGED <<diskVars, rc, runs, index, last_text, best, block_terms, chosen_text, acceptedAt, allDup, allKnown,
                 fallbacks, postCalls, startVars, posted, failed, persists, tweeted, auxVars>>

(* main, lines 529-536 and 599-601: the generator call raises *)
GeneratorRaises ==
  /\ pc = "generate"
  /\ LoopContinues(attempt)
  /\ attempt' = attempt + 1
  /\ prompt' = (IF block_terms # {} THEN add_blocklist_to_prompt(BasePrompt, block_terms) ELSE BasePrompt)
  /\ genFailedAt' = attempt'
  /\ pc' = "done"
  /\ rc' = 3
  /\ UNCHANGED <<diskVars, runs, index, last_text, best, block_terms, chosen_text, acceptedAt, allDup, allKnown,
                 fallbacks, postCalls, startVars, posted, failed, persists, tweeted, auxVars>>

(* main, lines 556-576: no chosen text, mutate the last candidate *)
Fallback(smp) ==
  /\ pc = "fallback"
  /\ smp \in Samples
  /\ fallbacks' = fallbacks + 1
  /\ chosen_text' = sanitize_and_limit(Mutate(last_text, smp))
  /\ pc' = "preview"
  /\ UNCHANGED <<diskVars, rc, runs, index, attempt, prompt, last_text, best, block_terms, acceptedAt, allDup,
                 allKnown, postCalls, genFailedAt, startVars, posted, failed, persists, tweeted, auxVars>>

(* main, lines 578-597: the preview entry is written before posting *)
WritePreview ==
  /\ pc = "preview"
  /\ mdLog' = Append(mdLog, [text |-> chosen_text, url |-> FALSE])
  /\ pc' = "post"
  /\ UNCHANGED <<indexFile, rc, runs, index, loopVars, fallbacks, postCalls, genFailedAt, startVars,
                 posted, failed, persists, tweeted, auxVars>>

\* mutant: the record is appended whether or not create_tweet succeeded
IndexAfterPost_always(idx, text, sd, ok) == Append(idx, Rec(normalize(text), sd))
\* the index list after the post step, given whether create_tweet succeeded
IndexAfterPost(idx, text, sd, ok) == IF ok THEN Append(idx, Rec(normalize(text), sd)) ELSE idx

(* main, lines 603-633: create_tweet succeeds; second preview entry, index append *)
PostSucceeds(outcome) ==
  /\ pc = "post"
  /\ postCalls' = postCalls + 1
  /\ posted' = posted \cup {normalize(chosen_text)}
  /\ mdLog' = Append(mdLog, [text |-> chosen_text, url |-> TRUE])
  /\ index' = IndexAfterPost(index, chosen_text, seed, TRUE)
  /\ indexFile' = persist_index(index', indexFile, outcome)
  /\ persists' = Append(persists, outcome)
  /\ tweeted' = TRUE
  /\ pc' = "done"
  /\ rc' = 0
  /\ UNCHANGED <<runs, loopVars, fallbacks, genFailedAt, startVars, failed, auxVars>>

(* main, lines 603-611 and 635-637: create_tweet raises *)
PostFails ==
  /\ pc = "post"
  /\ postCalls' = postCalls + 1
  /\ failed' = failed \cup {normalize(chosen_text)}
  /\ index' = IndexAfterPost(index, chosen_text, seed, FALSE)
  /\ indexFile' = (IF index' # index THEN persist_index(index', indexFile, "ok") ELSE indexFile)
  /\ persists' = (IF index' # index THEN Append(persists, "ok") ELSE persists)
  /\ pc' = "done"
  /\ rc' = 4
  /\ UNCHANGED <<mdLog, runs, loopVars, fallbacks, genFailedAt, startVars, posted, tweeted, auxVars>>

(* main, lines 611-619 and 635-637: create_tweet succeeds, then save_payload_json
   raises (tweet_payload.json cannot be written); the except branch returns 4 *)
PostRecordFails ==
  /\ pc = "post"
  /\ postCalls' = postCalls + 1
  /\ posted' = posted \cup {normalize(chosen_text)}
  /\ tweeted' = TRUE
  /\ pc' = "done"
  /\ rc' = 4
  /\ UNCHANGED <<diskVars, runs, index, loopVars, fallbacks, genFailedAt, startVars, failed, persists, auxVars>>

Next ==
  \/ MissingCredentials
  \/ \E sd \in Seeds, outcome \in PersistOutcomes : StartupRebuild(sd, outcome)
  \/ \E sd \in Seeds, outcome \in PersistOutcomes : StartupReconcile(sd, outcome)
  \/ ProviderUnavailable
  \/ \E raw \in Candidates : Attempt(raw)
  \/ GeneratorRaises
  \/ \E smp \in Samples : Fallback(smp)
  \/ WritePreview
  \/ \E outcome \in PersistOutcomes : PostSucceeds(outcome)
  \/ PostFails
  \/ PostRecordFails

Spec == Init /\ [][Next]_vars

(* ============ FeedbackCollector._handle_rate_limit (lines 102-134) ======= *)
\* what one call of func does
FuncResults == {"data", "None"}
RetriedErrors == {"TooManyRequests", "TwitterServerError"}
\* wait_time = 60 * (attempt + 1) resp. 5 * (attempt + 1)
wait_time(err, att) == IF err = "TooManyRequests" THEN 60 * (att + 1) ELSE 5 * (att + 1)
\* mutant: the last failure also sleeps and the loop ends without raising
retry_allowed_always(att, mr) == att < mr
\* if attempt < max_retries - 1
retry_allowed(att, mr) == att < mr - 1

(* the call of _handle_rate_limit; range(max_retries) is empty for 0 *)
RateLimitCall(mr) ==
  /\ rl_pc = "idle"
  /\ max_retries' = mr
  /\ rl_attempt' = 0
  /\ rl_pc' = IF mr > 0 THEN "loop" ELSE "returned"
  /\ UNCHANGED <<rl_calls, rl_sleeps, rl_result, rl_raised, vars, etgVars>>

(* one iteration: func returns *)
FuncReturns(v) ==
  /\ rl_pc = "loop"
  /\ rl_calls' = rl_calls + 1
  /\ rl_result' = v
  /\ rl_pc' = "returned"
  /\ UNCHANGED <<max_retries, rl_attempt, rl_sleeps, rl_raised, vars, etgVars>>

(* one iteration: func raises TooManyRequests or TwitterServerError *)
FuncRaisesRetried(err) ==
  /\ rl_pc = "loop"
  /\ rl_calls' = rl_calls + 1
  /\ IF retry_allowed(rl_attempt, max_retries)
     THEN /\ rl_sleeps' = Append(rl_sleeps, wait_time(err, rl_attempt))
          /\ rl_attempt' = rl_attempt + 1
          /\ rl_pc' = IF rl_attempt' < max_retries THEN "loop" ELSE "returned"
          /\ UNCHANGED rl_raised
     ELSE /\ rl_raised' = err
          /\ rl_pc' = "raised"
          /\ UNCHANGED <<rl_sleeps, rl_attempt>>
  /\ UNCHANGED <<max_retries, rl_result, vars, etgVars>>

(* one iteration: func raises any other exception, which no except clause catches *)
FuncRaisesOther ==
  /\ rl_pc = "loop"
  /\ rl_calls' = rl_calls + 1
  /\ rl_raised' = "other"
  /\ rl_pc' = "raised"
  /\ UNCHANGED <<max_retries, rl_attempt, rl_sleeps, rl_result, vars, etgVars>>

RateLimitNext ==
  \/ \E mr \in 0..MaxRetries : RateLimitCall(mr)
  \/ \E v \in FuncResults : FuncReturns(v)
  \/ \E err \in RetriedErrors : FuncRaisesRetried(err)
  \/ FuncRaisesOther

\* the collector is independent of the files of auto_post.py
RateLimitStart == Init /\ mdLog = <<>>
RateLimitSpec == RateLimitStart /\ [][RateLimitNext]_<<vars, auxVars>>

(* ========= EnhancedTweetGenerator (modules/enhanced_generator.py) ======== *)
\* character.constraints.get("max_tweet_length", 140)
MAX_TWEET_LENGTH == 140
\* character.speaking_style.get("max_emoji_per_tweet", 2)
MAX_EMOJI == 2
\* character.constraints["avoid_topics"] of the configured character
avoid_topics == {<<"b", "a">>}
\* characters inside the ranges of emoji_pattern: "E" is an emoji; the range
\* U+24C2..U+1F251 also holds the CJK letters
InEmojiRange(c) == c \in {"E", "ji", "ha"}
\* len(emoji_pattern.findall(tweet)): the number of maximal runs of such characters
emoji_count(tw) ==
  Cardinality({k \in 1..Len(tw) : InEmojiRange(tw[k]) /\ (k = 1 \/ ~InEmojiRange(tw[k - 1]))})
validate_tweet(tw) ==
  IF tw = <<>> THEN FALSE
  ELSE IF Len(tw) > MAX_TWEET_LENGTH THEN FALSE
  ELSE IF \E topic \in avoid_topics : Occurs(Lowercase(topic), Lowercase(tw)) THEN FALSE
  ELSE emoji_count(tw) <= MAX_EMOJI

\* message contents the model may return (None is the empty content)
G_ok == <<"a", "b", " ", "c", "d", "\n">>
G_blank == <<" ">>
G_long == [k \in 1..(MAX_TWEET_LENGTH + 1) |-> "x"]
G_topic == <<"x", "B", "A">>
G_emoji == <<"E", " ", "E", " ", "E">>
G_emojiRun == <<"E", "E", "E">>
Contents == {G_ok, G_blank, G_long, G_topic, G_emoji, G_emojiRun}

\* mutant: one more iteration than range(1, max_attempts + 1)
attempts_left_offByOne(att, ma) == att <= ma
\* for attempt in range(1, max_attempts + 1): another iteration follows attempt att
attempts_left(att, ma) == att < ma

(* generate_tweet_with_context is called; the prompt is built before the loop *)
GenerateCall(ma) ==
  /\ etg_pc = "idle"
  /\ max_attempts' = ma
  /\ etg_attempt' = 0
  /\ etg_pc' = IF attempts_left(0, ma) THEN "generating" ELSE "raised"
  /\ etg_raised' = IF attempts_left(0, ma) THEN "none" ELSE "RuntimeError"
  /\ UNCHANGED <<etg_outputs, tweet, dry_run, poster_calls, result, analyzer_db, vars, rlVars>>

\* the loop after an attempt that returned no tweet
AfterFailedAttempt ==
  /\ etg_pc' = IF attempts_left(etg_attempt', max_attempts) THEN "generating" ELSE "raised"
  /\ etg_raised' = IF attempts_left(etg_attempt', max_attempts) THEN "none" ELSE "RuntimeError"
  /\ UNCHANGED tweet

(* one iteration: chat.completions.create returns, the content is validated *)
CreateReturns(content) ==
  /\ etg_pc = "generating"
  /\ etg_attempt' = etg_attempt + 1
  /\ etg_outputs' = Append(etg_outputs, <<"content", content>>)
  /\ IF validate_tweet(Strip(content))
     THEN /\ tweet' = Strip(content)
          /\ etg_pc' = "generated"
          /\ UNCHANGED etg_raised
     ELSE AfterFailedAttempt
  /\ UNCHANGED <<max_attempts, dry_run, poster_calls, result, analyzer_db, vars, rlVars>>

(* one iteration: chat.completions.create raises, the exception is logged *)
CreateRaises ==
  /\ etg_pc = "generating"
  /\ etg_attempt' = etg_attempt + 1
  /\ etg_outputs' = Append(etg_outputs, <<"raise">>)
  /\ AfterFailedAttempt
  /\ UNCHANGED <<max_attempts, dry_run, poster_calls, result, analyzer_db, vars, rlVars>>

\* response.data.get("id"): an id, or None
TweetIds == {"id1", "None"}
\* mutant: success is reported whether or not an id came back
posted_result_anyId(res, id) == [res EXCEPT !.success = TRUE, !.tweet_id = id]
\* lines 318-339: the result after create_tweet returned
posted_result(res, id) ==
  IF id # "None"
  THEN [res EXCEPT !.success = TRUE, !.tweet_id = id]
  ELSE [res EXCEPT !.error = "No tweet ID returned"]

(* post_and_record(tweet, dry_run=True): lines 284-289 *)
PostDryRun ==
  /\ etg_pc = "generated"
  /\ dry_run' = TRUE
  /\ result' = [NewResult(TRUE) EXCEPT !.success = TRUE, !.tweet_id = "dry_run_ts"]
  /\ etg_pc' = "posted"
  /\ UNCHANGED <<max_attempts, etg_attempt, etg_outputs, tweet, poster_calls, analyzer_db, etg_raised, vars, rlVars>>

(* post_and_record, lines 291-307: a credential is missing, ValueError *)
PostMissingCredentials ==
  /\ etg_pc = "generated"
  /\ dry_run' = FALSE
  /\ result' = [NewResult(FALSE) EXCEPT !.error = "credentials missing"]
  /\ etg_raised' = "ValueError"
  /\ etg_pc' = "raised"
  /\ UNCHANGED <<max_attempts, etg_attempt, etg_outputs, tweet, poster_calls, analyzer_db, vars, rlVars>>

(* post_and_record, lines 309-345: create_tweet returns; add_tweet may fail *)
CreateTweetReturns(id, db_ok) ==
  /\ etg_pc = "generated"
  /\ dry_run' = FALSE
  /\ poster_calls' = poster_calls + 1
  /\ result' = posted_result(NewResult(FALSE), id)
  /\ analyzer_db' = IF result'.success /\ db_ok THEN Append(analyzer_db, tweet) ELSE analyzer_db
  /\ etg_pc' = "posted"
  /\ UNCHANGED <<max_attempts, etg_attempt, etg_outputs, tweet, etg_raised, vars, rlVars>>

(* post_and_record, lines 309-317 and 341-343: create_tweet raises *)
CreateTweetRaises ==
  /\ etg_pc = "generated"
  /\ dry_run' = FALSE
  /\ poster_calls' = poster_calls + 1
  /\ result' = [NewResult(FALSE) EXCEPT !.error = "exception text"]
  /\ etg_pc' = "posted"
  /\ UNCHANGED <<max_attempts, etg_attempt, etg_outputs, tweet, analyzer_db, etg_raised, vars, rlVars>>

GeneratorNext ==
  \/ \E ma \in 0..MaxAttemptsArg : GenerateCall(ma)
  \/ \E content \in Contents : CreateReturns(content)
  \/ CreateRaises
  \/ PostDryRun
  \/ PostMissingCredentials
  \/ \E id \in TweetIds, db_ok \in BOOLEAN : CreateTweetReturns(id, db_ok)
  \/ CreateTweetRaises

\* the generator is independent of the files of auto_post.py
GeneratorStart == Init /\ mdLog = <<>>
GeneratorSpec == GeneratorStart /\ [][GeneratorNext]_<<vars, auxVars>>

(* ============================== claims ================================= *)
Norms(idx) == {idx[k].norm : k \in 1..Len(idx)}
NoDuplicates(idx) == \A a, b \in 1..Len(idx) : idx[a].norm = idx[b].norm => a = b
AfterLoopPc == {"preview", "post", "done"}
\* a generation loop that ran and was not cut short by a generator error
LoopCompleted == attempt > 0 /\ genFailedAt = 0 /\ pc \in AfterLoopPc

\* C1: no record of the in-memory or the durable index carries the normalized
\* form of a text whose post call failed, unless that text was also posted
\* successfully.
C1_FailedPostNeverRecorded ==
  /\ \A k \in 1..Len(index) : index[k].norm \in failed => index[k].norm \in posted
  /\ \A k \in 1..Len(indexFile.recs) : indexFile.recs[k].norm \in failed => indexFile.recs[k].norm \in posted

\* C2: until create_tweet has returned successfully the in-memory index and the
\* index file are what the startup step left; a raising post call ends the run
\* with 4 and leaves both so; an index that changed is the startup index plus
\* the record of the chosen text, in a run that returned 0.
C2_AppendOnlyAfterPostSuccess ==
  /\ pc \in {"generate", "fallback", "preview", "post"} => index = startIndex /\ indexFile = startFile
  /\ (pc = "done" /\ postCalls = 1 /\ rc # 0) => rc = 4 /\ index = startIndex /\ indexFile = startFile
  /\ (pc = "done" /\ (index # startIndex \/ indexFile # startFile)) =>
       /\ rc = 0
       /\ postCalls = 1
       /\ index = Append(startIndex, Rec(normalize(chosen_text), seed))
C2_Witness == pc = "done" /\ rc = 4 /\ postCalls = 1 /\ startIndex # <<>>

\* C3: the generator is never invoked more than MAX_ATTEMPTS times; a run all
\* of whose candidates had Jaccard >= threshold invoked it exactly MAX_ATTEMPTS
\* times, applied the fallback exactly once and chose a non-empty text.
C3_BoundedAttemptsThenFallback ==
  /\ attempt <= MAX_ATTEMPTS
  /\ (allDup /\ attempt > 0 /\ genFailedAt = 0 /\ pc = "fallback") => attempt = MAX_ATTEMPTS /\ fallbacks = 0
  /\ (allDup /\ LoopCompleted) => attempt = MAX_ATTEMPTS /\ fallbacks = 1 /\ chosen_text # <<>>
C3_Witness == pc = "post" /\ allDup /\ attempt = MAX_ATTEMPTS /\ fallbacks = 1 /\ genFailedAt = 0

\* C4: the candidate of an attempt is accepted exactly if its nearest-neighbour
\* Jaccard score is below 0.80 and its Hamming distance is above 3; once a
\* candidate is accepted no further generator call is made and the chosen text
\* is that candidate.
C4_ThresholdRule ==
  (attempt > 0 /\ genFailedAt = 0) =>
    /\ best = most_similar_info(last_text, startIndex, seed)
    /\ ((acceptedAt = attempt) <=> (best.jac[1] * 100 < 80 * best.jac[2] /\ best.ham > 3))
    /\ acceptedAt \in {0, attempt}
    /\ acceptedAt > 0 => chosen_text = last_text
C4_Witness == acceptedAt >= 2 /\ pc = "post" /\ best.nearest # <<>>

\* C5: with an empty index the first candidate, whatever it is, is accepted:
\* one generator call, the fallback branch is not entered, and the chosen text
\* is the candidate.
C5_EmptyIndexAcceptsFirst ==
  (startIndex = <<>> /\ attempt > 0 /\ genFailedAt = 0) =>
    /\ attempt = 1
    /\ acceptedAt = 1
    /\ pc # "fallback"
    /\ fallbacks = 0
    /\ chosen_text = last_text

\* C6: a candidate whose normalized form is the normalized_text of an index
\* record is never accepted, whatever fingerprint the record holds; a run all
\* of whose candidates are such uses every attempt and takes the fallback path.
C6_KnownTextRejected ==
  /\ (attempt > 0 /\ genFailedAt = 0 /\ normalize(last_text) \in Norms(startIndex)) => acceptedAt = 0
  /\ (allKnown /\ attempt > 0 /\ genFailedAt = 0 /\ pc # "generate") =>
       /\ attempt = MAX_ATTEMPTS
       /\ IF pc = "fallback" THEN fallbacks = 0 ELSE fallbacks = 1
C6_Witness ==
  /\ allKnown /\ attempt = MAX_ATTEMPTS /\ fallbacks = 1 /\ genFailedAt = 0
  /\ best.nearest # <<>> /\ best.nearest[1].norm = normalize(last_text)
  /\ best.ham > HAMMING_TH

\* C7: after the fallback mutation of last candidate C the chosen text differs
\* from C if some pattern of the substitution table occurs in C, and equals C
\* if none does.
AnyPatternOccurs(text) == \E k \in 1..Len(variation_patterns) : Occurs(variation_patterns[k][1], text)
C7_FallbackChangesMatchingText ==
  (fallbacks = 1 /\ acceptedAt = 0) =>
    IF AnyPatternOccurs(last_text) THEN chosen_text # last_text ELSE chosen_text = last_text

\* C8: a generation loop in which no generator call fails ends, after at most
\* MAX_ATTEMPTS iterations, with a chosen text that is handed to the post step:
\* every step of the loop is a generator call counted by attempt, which stays
\* below MAX_ATTEMPTS while the loop runs; the loop is left for the fallback or
\* the preview step, whose only steps lead on to the post step; and exit code 3
\* is only ever the result of a failed generator call or of an unavailable
\* provider.
C8_State ==
  /\ pc = "generate" => attempt < MAX_ATTEMPTS
  /\ pc = "fallback" => chosen_text = <<>> /\ fallbacks = 0
  /\ pc = "preview" => attempt > 0 /\ genFailedAt = 0
  /\ pc = "post" => mdLog # <<>> /\ mdLog[Len(mdLog)] = [text |-> chosen_text, url |-> FALSE]
  /\ (pc = "done" /\ attempt > 0 /\ genFailedAt = 0) => rc \in {0, 4} /\ postCalls = 1
  /\ (pc = "done" /\ rc = 3) => genFailedAt > 0 \/ attempt = 0
C8_Step ==
  /\ pc = "generate" =>
       \/ attempt' = attempt + 1 /\ pc' \in {"generate", "fallback", "preview"} /\ genFailedAt' = 0
       \/ attempt' = attempt + 1 /\ pc' = "done" /\ genFailedAt' = attempt'
       \/ attempt = 0 /\ pc' = "done" /\ rc' = 3
  /\ pc = "fallback" => pc' = "preview"
  /\ pc = "preview" => pc' = "post"
C9_GeneratorErrorIsTerminal ==
  genFailedAt > 0 =>
    /\ pc = "done"
    /\ rc = 3
    /\ attempt = genFailedAt
    /\ postCalls = 0
    /\ index = startIndex
    /\ indexFile = startFile
    /\ mdLog = startLog
C9_Witness == genFailedAt >= 2 /\ rc = 3 /\ startLog # <<>>

\* C10: reconciling a non-empty loaded index keeps the loaded records as a
\* prefix, appends exactly one record per distinct normalized log text that was
\* not in it, so that the normalized texts are the union of both sets, and
\* introduces no duplicate.
LogNorms(log) == LET texts == extract_past_texts_from_md(log) IN {normalize(texts[k]) : k \in 1..Len(texts)}
C10_ReconcileAddsMissingOnce ==
  loaded # <<>> =>
    /\ Len(startIndex) >= Len(loaded)
    /\ SubSeq(startIndex, 1, Len(loaded)) = loaded
    /\ Norms(startIndex) = Norms(loaded) \cup LogNorms(startLog)
    /\ Len(startIndex) - Len(loaded) = Cardinality(LogNorms(startLog) \ Norms(loaded))
    /\ NoDuplicates(loaded) => NoDuplicates(startIndex)
C10_Witness ==
  /\ loaded # <<>>
  /\ Len(startIndex) > Len(loaded)
  /\ LogNorms(startLog) \cap Norms(loaded) # {}

\* C11: every step that appends to the in-memory index also calls persist_index
\* with the full list, and no other step changes the index; after a persist
\* that succeeded the index file holds exactly the in-memory list; and in a run
\* that loaded the index every record of the index file is in the in-memory
\* list.
LastPersist == IF persists = <<>> THEN "none" ELSE persists[Len(persists)]
C11_State ==
  /\ LastPersist = "ok" => indexFile = [st |-> "ok", recs |-> index]
  /\ (runs > 0 /\ rc # 2) =>
       \A k \in 1..Len(indexFile.recs) : \E j \in 1..Len(index) : index[j] = indexFile.recs[k]
C11_Step ==
  /\ index' # index => runs' = runs + 1 \/ pc = "post"
  /\ (runs' = runs + 1 /\ index' # loaded') => Len(persists') = 1
  /\ (pc = "post" /\ index' # index) => Len(persists') = Len(persists) + 1
  /\ Len(persists') > Len(persists) =>
       indexFile' \in {[st |-> "ok", recs |-> index'], indexFile, [st |-> "corrupt", recs |-> <<>>]}
C11_AppendImmediatelyPersisted == []C11_State /\ [][C11_Step]_vars
C11_Witness ==
  /\ pc = "done" /\ rc = 0 /\ loaded # <<>> /\ Len(startIndex) > Len(loaded)
  /\ persists = <<"ok", "ok">>
  /\ indexFile.recs = index /\ Len(index) = Len(loaded) + 2

\* C12: a persist_index call that fails, in the startup rebuild, the startup
\* reconcile or after a successful post, does not end the run: the run never
\* ends with an uncaught exception (exit status 1), the in-memory index keeps
\* the records it had, and a run whose post succeeded returns 0.
C12_PersistFailureNonFatal ==
  (\E k \in 1..Len(persists) : persists[k] # "ok") =>
    /\ rc # 1
    /\ Len(index) >= Len(startIndex) /\ SubSeq(index, 1, Len(startIndex)) = startIndex
    /\ (pc = "done" /\ postCalls = 1 /\ LastPersist # "ok" /\ index # startIndex) => rc = 0

\* C13: persist_index replaces the index file atomically: after every step,
\* a persist that failed part-way included, the file is either what it was
\* before the step or the complete new in-memory list, never a truncated one.
C13_Step ==
  indexFile' # indexFile => indexFile' = [st |-> "ok", recs |-> index']
C13_PersistIsAtomic == [][C13_Step]_vars

\* C14: a run that finds the index file missing or unparsable loads an empty
\* list, rebuilds the index from the preview log (for every marker line, in
\* file order, one record of the first non-blank line after it), persists it
\* and goes on to the generation step; it does not end there.
MarkerPositions(lines) ==
  {i \in 1..Len(lines) : IsMarker(lines[i]) /\ \E j \in (i + 1)..Len(lines) : Strip(lines[j]) # <<>>}
NthMarker(lines, n) ==
  CHOOSE i \in MarkerPositions(lines) : Cardinality({m \in MarkerPositions(lines) : m < i}) = n - 1
FirstTextAfter(lines, i) ==
  Strip(lines[CHOOSE j \in (i + 1)..Len(lines) :
                /\ Strip(lines[j]) # <<>>
                /\ \A m \in (i + 1)..(j - 1) : Strip(lines[m]) = <<>>])
RebuiltIndex(log, sd) ==
  LET lines == MdLines(log)
  IN [n \in 1..Cardinality(MarkerPositions(lines)) |->
        LET norm == normalize(FirstTextAfter(lines, NthMarker(lines, n)))
        IN [norm |-> norm, simhash |-> simhash(char_ngrams(norm, 2), sd)]]
C14_Step ==
  (runs' = runs + 1 /\ rc' # 2 /\ indexFile.st # "ok") =>
    /\ loaded' = <<>>
    /\ index' = RebuiltIndex(mdLog, seed')
    /\ persists' # <<>>
    /\ pc' = "generate"
C14_UnusableIndexIsRebuilt == [][C14_Step]_vars

\* C15: normalize is idempotent: normalizing the normalized form of a
\* candidate, of the chosen text or of a preview-log text gives that
\* normalized form again.
Idempotent(text) == normalize(normalize(text)) = normalize(text)
C15_NormalizeIdempotent ==
  /\ Idempotent(last_text)
  /\ Idempotent(chosen_text)
  /\ \A k \in 1..Len(mdLog) : Idempotent(mdLog[k].text)

\* C16: a candidate that differs from a recorded text only in letter case and
\* in added punctuation has the normalized form stored for that text, scores
\* Jaccard 1.0 and Hamming distance 0 against the index, and is rejected.
WithoutPunctuation(text) == SelectSeq(text, LAMBDA c : c \notin Punctuation)
CaseAndPunctuationVariant(cand, text) ==
  cand # text /\ Lowercase(WithoutPunctuation(cand)) = Lowercase(text)
C16_CaseAndPunctuationVariantRejected ==
  (attempt > 0 /\ genFailedAt = 0) =>
    \A k \in 1..Len(startLog) :
      (CaseAndPunctuationVariant(last_text, startLog[k].text) /\ normalize(startLog[k].text) \in Norms(startIndex)) =>
        /\ normalize(last_text) = normalize(startLog[k].text)
        /\ JacEq(best.jac, <<1, 1>>)
        /\ best.ham = 0
        /\ acceptedAt = 0

\* C17: the fingerprint is the same in every process: in a run that loaded the
\* index, the fingerprint stored in each record equals the fingerprint this
\* run computes for the record's normalized text.
C17_SimhashStableAcrossRuns ==
  (runs > 0 /\ rc # 2) =>
    \A k \in 1..Len(index) : index[k].simhash = simhash(char_ngrams(index[k].norm, 2), seed)

\* C18: the result of the nearest-neighbour scan of the last candidate is the
\* initial best (0.0, 64, no record) if no record has a positive Jaccard score
\* or, at score 0, a distance below 64; otherwise it is the record with the
\* greatest Jaccard score, among those the one with the smallest Hamming
\* distance, among those the earliest in the list, together with that record's
\* own score and distance.
ScoreOf(k) == jaccard(char_ngrams(normalize(last_text), 2), char_ngrams(startIndex[k].norm, 2))
DistanceOf(k) == hamming(simhash(char_ngrams(normalize(last_text), 2), seed), startIndex[k].simhash)
Beats(j, k) == JacLess(ScoreOf(k), ScoreOf(j)) \/ (JacEq(ScoreOf(j), ScoreOf(k)) /\ DistanceOf(j) < DistanceOf(k))
Ties(j, k) == JacEq(ScoreOf(j), ScoreOf(k)) /\ DistanceOf(j) = DistanceOf(k)
BeatsInitial(k) == ScoreOf(k)[1] > 0 \/ DistanceOf(k) < HASH_BITS
IsNearest(p) ==
  /\ BeatsInitial(p)
  /\ \A j \in 1..Len(startIndex) : ~Beats(j, p)
  /\ \A j \in 1..(p - 1) : ~Ties(j, p)
C18_NearestNeighbour ==
  (attempt > 0 /\ genFailedAt = 0) =>
    IF \A k \in 1..Len(startIndex) : ~BeatsInitial(k)
    THEN best = [jac |-> <<0, 1>>, ham |-> 64, nearest |-> <<>>]
    ELSE \E p \in 1..Len(startIndex) :
           /\ IsNearest(p)
           /\ best = [jac |-> ScoreOf(p), ham |-> DistanceOf(p), nearest |-> <<startIndex[p]>>]
C18_Witness ==
  /\ attempt > 0 /\ genFailedAt = 0
  /\ \E j, p \in 1..Len(startIndex) :
       /\ j < p /\ IsNearest(p)
       /\ JacEq(ScoreOf(j), ScoreOf(p)) /\ DistanceOf(p) < DistanceOf(j)

\* C19: for every reordering of the records of the index, the scan of the last
\* candidate returns the same Jaccard score and the same Hamming distance, and
\* the threshold rule gives the same decision; only the returned record may be
\* another one.
Permuted(idx, perm) == [k \in 1..Len(idx) |-> idx[perm[k]]]
C19_OrderIrrelevant ==
  (attempt > 0 /\ genFailedAt = 0) =>
    \A perm \in Orderings(1..Len(startIndex)) :
      LET other == most_similar_info(last_text, Permuted(startIndex, perm), seed)
      IN /\ JacEq(other.jac, best.jac)
         /\ other.ham = best.ham
         /\ Accepts(other) = Accepts(best)
C19_Witness ==
  /\ attempt > 0 /\ genFailedAt = 0 /\ Len(startIndex) >= 2
  /\ \E perm \in Orderings(1..Len(startIndex)) :
       most_similar_info(last_text, Permuted(startIndex, perm), seed).nearest # best.nearest

\* C20: the text that is written to the preview log and handed to create_tweet
\* has at most 140 characters, no newline and no two consecutive whitespace
\* characters, whether it is an accepted candidate or the mutated last
\* candidate.
OneLineWithinLimit(text) ==
  /\ Len(text) <= 140
  /\ \A k \in 1..Len(text) : text[k] # "\n"
  /\ \A k \in 1..(Len(text) - 1) : ~(text[k] \in Whitespace /\ text[k + 1] \in Whitespace)
C20_PostedTextWithinLimit ==
  /\ pc \in {"preview", "post"} => OneLineWithinLimit(chosen_text)
  /\ postCalls > 0 => OneLineWithinLimit(chosen_text)
  /\ \A k \in 1..Len(mdLog) : OneLineWithinLimit(mdLog[k].text)
C20_Witness ==
  /\ pc = "done" /\ postCalls = 1 /\ fallbacks = 1
  /\ chosen_text # last_text
  /\ \E smp \in Samples : Len(Mutate(last_text, smp)) > LIMIT /\ chosen_text = SubSeq(Mutate(last_text, smp), 1, LIMIT)

\* C21: a finished run returned 0 exactly if its create_tweet call succeeded;
\* it returned 3 if a generator call raised and 4 if create_tweet raised; and a
\* run that returned 2 loaded and changed no index and called neither the
\* generator nor the poster.
C21_ExitCodeReflectsFailedStep ==
  pc = "done" =>
    /\ (rc = 0) <=> tweeted
    /\ genFailedAt > 0 => rc = 3
    /\ (postCalls = 1 /\ ~tweeted) => rc = 4
    /\ rc = 2 =>
         /\ index = <<>> /\ loaded = <<>> /\ persists = <<>> /\ indexFile = startFile
         /\ attempt = 0 /\ postCalls = 0

\* C22: _handle_rate_limit calls func at most max_retries times; it sleeps
\* once after every retried failure but the max_retries-th, so a return after
\* n calls was preceded by n - 1 sleeps; a returned call is the last call; the
\* max_retries-th TooManyRequests or TwitterServerError in a row is raised
\* after max_retries - 1 sleeps; any other exception is raised by the call it
\* came from with no sleep for it.
C22_State ==
  /\ rl_calls <= max_retries
  /\ rl_pc = "loop" => rl_calls = rl_attempt /\ Len(rl_sleeps) = rl_calls /\ rl_calls < max_retries
  /\ (rl_pc = "returned" /\ max_retries > 0) => rl_calls >= 1 /\ Len(rl_sleeps) = rl_calls - 1 /\ rl_raised = "none"
  /\ (rl_pc = "raised" /\ rl_raised \in RetriedErrors) => rl_calls = max_retries /\ Len(rl_sleeps) = max_retries - 1
  /\ (rl_pc = "raised" /\ rl_raised = "other") => Len(rl_sleeps) = rl_calls - 1
  /\ (rl_pc = "returned" /\ max_retries = 0) => rl_calls = 0 /\ rl_result = "None"
C22_Step ==
  /\ rl_pc \in {"returned", "raised"} => UNCHANGED <<rl_calls, rl_sleeps, rl_result, rl_raised>>
  /\ rl_calls' # rl_calls => rl_calls' = rl_calls + 1 /\ Len(rl_sleeps') <= Len(rl_sleeps) + 1
  /\ (rl_pc = "loop" /\ rl_pc' = "loop") => Len(rl_sleeps') = Len(rl_sleeps) + 1
  /\ (rl_pc = "loop" /\ rl_pc' # "loop") => rl_sleeps' = rl_sleeps
C22_RateLimitRetry == []C22_State /\ [][C22_Step]_<<vars, auxVars>>
C22_Witness == rl_pc = "returned" /\ rl_calls = 2 /\ Len(rl_sleeps) = 1 /\ rl_result = "data"

\* C23: generate_tweet_with_context makes at most max_attempts calls of the
\* generator; every call before the last one raised or returned a text that
\* fails validate_tweet; a returned tweet is the stripped content of the last
\* call, passes validate_tweet, and no call follows it; RuntimeError is raised
\* exactly when max_attempts calls were made and every one raised or failed
\* validation.
FailedOutput(o) == o[1] = "raise" \/ ~validate_tweet(Strip(o[2]))
Returned == etg_pc \in {"generated", "posted"} \/ etg_raised = "ValueError"
C23_State ==
  /\ Len(etg_outputs) = etg_attempt /\ etg_attempt <= max_attempts
  /\ \A k \in 1..(Len(etg_outputs) - 1) : FailedOutput(etg_outputs[k])
  /\ etg_pc = "generating" => etg_attempt < max_attempts /\ \A k \in 1..Len(etg_outputs) : FailedOutput(etg_outputs[k])
  /\ Returned =>
       /\ etg_outputs # <<>>
       /\ etg_outputs[Len(etg_outputs)] # <<"raise">>
       /\ tweet = Strip(etg_outputs[Len(etg_outputs)][2])
       /\ validate_tweet(tweet)
  /\ (etg_raised = "RuntimeError") <=>
       /\ etg_pc = "raised"
       /\ Len(etg_outputs) = max_attempts
       /\ \A k \in 1..Len(etg_outputs) : FailedOutput(etg_outputs[k])
C23_Step ==
  /\ etg_outputs' # etg_outputs => etg_pc = "generating" /\ Len(etg_outputs') = Len(etg_outputs) + 1
  /\ etg_pc \in {"generated", "posted", "raised"} => UNCHANGED <<etg_outputs, tweet, etg_attempt>>
C23_GenerateWithContext == []C23_State /\ [][C23_Step]_<<vars, auxVars>>
C23_Witness ==
  /\ etg_pc = "generated" /\ max_attempts = 3 /\ Len(etg_outputs) = 3
  /\ etg_outputs[1] = <<"raise">> /\ etg_outputs[2] = <<"content", G_long>>
  /\ tweet = <<"a", "b", " ", "c", "d">>

\* C24: post_and_record with dry_run makes no create_tweet call and returns
\* success with a tweet id; without dry_run it returns success only with the
\* id create_tweet returned; the analyzer database receives the tweet only in
\* a call that returned success with such an id; and when create_tweet raises,
\* the method returns a result with success false and the error text, raising
\* nothing.
C24_State ==
  /\ (etg_pc = "posted" /\ dry_run) =>
       poster_calls = 0 /\ result.success /\ result.tweet_id # "None"
  /\ (etg_pc = "posted" /\ ~dry_run) =>
       /\ poster_calls = 1
       /\ result.success => result.tweet_id \in TweetIds \ {"None"} /\ result.error = "None"
       /\ ~result.success => result.tweet_id = "None" /\ result.error # "None"
  /\ analyzer_db # <<>> =>
       etg_pc = "posted" /\ ~dry_run /\ result.success /\ result.tweet_id # "None" /\ analyzer_db = <<tweet>>
  /\ result.error = "exception text" => etg_pc = "posted" /\ ~result.success /\ etg_raised = "none"
  /\ etg_pc # "posted" => poster_calls = 0
C24_Step ==
  /\ poster_calls' # poster_calls => etg_pc = "generated" /\ ~dry_run' /\ etg_pc' = "posted"
  /\ analyzer_db' # analyzer_db => poster_calls' = poster_calls + 1 /\ result'.success
Rejected == attempt > 0 /\ genFailedAt = 0 /\ acceptedAt = 0
C25_PromptAlwaysCarriesBlockTerms ==
  /\ attempt = 1 => prompt = BasePrompt
  /\ Rejected => block_terms # {} /\ \A t \in block_terms : Len(t) = 2
  /\ attempt >= 2 => prompt # BasePrompt

\* C25 (amended): the first generator call of a run gets the base prompt;
\* after a rejection the block terms are shingles of the normalized text of
\* that attempt's nearest neighbour, all of them up to 8 (none if that text
\* has no shingle); the next call's prompt is the base prompt with exactly
\* these terms and none of an earlier attempt; and no attempt writes the index
\* file or the preview log.
C25_State ==
  /\ attempt = 1 => prompt = BasePrompt
  /\ Rejected =>
       /\ best.nearest # <<>>
       /\ block_terms \subseteq char_ngrams(best.nearest[1].norm, 2)
       /\ Cardinality(block_terms) <= 8
       /\ Cardinality(block_terms) < 8 => block_terms = char_ngrams(best.nearest[1].norm, 2)
C25_Step ==
  (pc = "generate" /\ attempt >= 1 /\ attempt' = attempt + 1) =>
    /\ prompt' = BasePrompt \cup block_terms
    /\ UNCHANGED <<indexFile, mdLog>>
C25_BlockTermsFromLastNeighbour == []C25_State /\ [][C25_Step]_vars
C25_Witness ==
  /\ Rejected /\ attempt >= 2
  /\ Cardinality(block_terms) = 8 /\ Cardinality(char_ngrams(best.nearest[1].norm, 2)) > 8
  /\ prompt # BasePrompt /\ ~(prompt \subseteq char_ngrams(best.nearest[1].norm, 2))

\* C26: the fallback runs only after attempt MAX_ATTEMPTS with nothing
\* accepted; it turns the candidate of that last attempt into the chosen text
\* by at most two substitutions and the length cut, calls the generator no
\* more (attempt and last candidate stay), leaves the index and its file
\* alone, does not score the result (the last score stays) and always goes on
\* to the preview.
C26_State ==
  pc = "fallback" => attempt = MAX_ATTEMPTS /\ acceptedAt = 0 /\ chosen_text = <<>>
C26_Step ==
  (pc = "fallback" /\ pc' # "fallback") =>
    /\ \E smp \in Samples : chosen_text' = sanitize_and_limit(Mutate(last_text, smp))
    /\ pc' = "preview"
    /\ UNCHANGED <<attempt, last_text, prompt, best, block_terms, index, indexFile, mdLog>>
C26_FallbackOnLastCandidate == []C26_State /\ [][C26_Step]_vars

\* C27: after a rejection the nearest neighbour reported by the scorer is one
\* of the records of the index, never "no record", and the block terms kept
\* for the next attempt are the ones extracted from that record's normalized
\* text.
C27_RejectionHasNeighbour ==
  Rejected =>
    /\ best.nearest # <<>>
    /\ \E k \in 1..Len(index) :
         /\ index[k] = best.nearest[1]
         /\ block_terms = extract_block_terms(<<index[k].norm>>, seed)
\* a rejection by fingerprint distance alone: no record shares a shingle with
\* the candidate, so the Jaccard score never left its initial value
C27_Witness ==
  /\ Rejected /\ Len(index) >= 1
  /\ best.jac = <<0, 1>> /\ best.ham <= HAMMING_TH
  /\ best.nearest # <<>>

\* C28: at the moment the threshold rule accepts a candidate, the Jaccard
\* similarity of its shingles with the shingles of every record of the index
\* is below JACCARD_TH.
JaccardWith(text, rec) == jaccard(char_ngrams(normalize(text), 2), char_ngrams(rec.norm, 2))
C28_Step ==
  (acceptedAt = 0 /\ acceptedAt' # 0) =>
    \A k \in 1..Len(index') : JacLess(JaccardWith(last_text', index'[k]), JACCARD_TH)
C28_AcceptedBelowThresholdEverywhere == [][C28_Step]_vars
\* accepted against an index of records with different texts, one of which
\* shares shingles with the candidate
C28_Witness ==
  /\ acceptedAt # 0 /\ pc = "preview" /\ chosen_text = last_text
  /\ \E j, k \in 1..Len(index) : index[j].norm # index[k].norm
  /\ JacLess(<<0, 1>>, best.jac)
  /\ \A k \in 1..Len(index) : JacLess(JaccardWith(last_text, index[k]), JACCARD_TH)

\* C29: while the generation loop of a run is going on, the index it scores
\* against holds a record with the normalized form of every text an earlier
\* run posted with exit code 0 (the texts of the log entries that carry a
\* "Posted:" line), whatever happened to the index file in between.
PostedTexts(log) == {log[i].text : i \in {j \in 1..Len(log) : log[j].url}}
IndexNorms == {index[k].norm : k \in 1..Len(index)}
C29_PostedTextInLaterIndex ==
  pc = "generate" => \A t \in PostedTexts(mdLog) : normalize(t) \in IndexNorms

\* C30: in every state the records of the index list of main(), and those of
\* the index file it wrote, have pairwise distinct normalized texts.
C30_IndexNormsUnique == NoDuplicates(index) /\ NoDuplicates(load_existing_index(indexFile))

====
